---- MODULE Spec2Model ----
(***************************************************************************)
(* A state-machine model of imgResample.c: the command-line driver (main), *)
(* the PPM reader and writer, the bicubic resampler (resize_image,         *)
(* sample_bicubic, cubic_hermite, get_pixel_clamped) and the 2x box        *)
(* downsampler (resize2).                                                  *)
(*                                                                         *)
(* Numbers.  Scale factors are multiples of 1/4 (exact as C doubles), held *)
(* as the integer 4*scale.  The doubles of sample_bicubic are held as      *)
(* exact fractions numerator/denominator.                                  *)
(***************************************************************************)
EXTENDS Integers, Sequences, FiniteSets, TLC

(* ------------------------------ bounds -------------------------------- *)
\* Largest width and height written in the size line of an input file.
MaxW == 5
MaxH == 7
\* How many iterations of a non-terminating getc loop are unrolled.
MaxSpin == 2
\* get_pixel_clamped is applied to coordinates in -MaxCoord .. MaxCoord.
MaxCoord == 8

(* ------------------------- program constants -------------------------- *)
RGB_COMPONENT_COLOR == 255
\* sizeof(PPMPixel): three unsigned chars.
SizeofPPMPixel == 3

\* The range of a C int.
IntMax == 2147483646 + 1
IntMin == (-IntMax) - 1

VARIABLES
    pc,                 \* position of the process
    argc, argv1,        \* argument count and the scale-spec argv[1]
    scale,              \* main's double scale, as 4*scale
    inFile,             \* the file named by argv[2]
    inOpened,           \* fopen(argv[2], "rb") was called
    removed,            \* remove(argv[3]) was called
    outFile,            \* the file named by argv[3]
    outOpened,          \* fopen(argv[3], "wb") was called
    source_image,       \* main's source_image
    destination_image,  \* main's destination_image
    dx, dy,             \* the loop counters x, y of resize_image / resize2
    calls,              \* the get_pixel_clamped calls of the last sample
    reads,              \* source indices read by the last resize2 pixel
    samp,               \* the locals of the last sample_bicubic call
    wr,                 \* index of the last destination pixel stored, or -1
    allocFailed,        \* which malloc returned NULL, or "none"
    nullAccess,         \* a buffer whose malloc returned NULL was accessed
    nanCast,            \* what this build yields for (int)NaN, (uint8_t)NaN
    spin,               \* iterations made by a getc loop that cannot end
    exitStatus,         \* -1 while running, else the exit status
    errAt               \* which diagnostic ended the run, or "none"

vars == <<pc, argc, argv1, scale, inFile, inOpened, removed, outFile, outOpened,
          source_image, destination_image, dx, dy, calls, reads, samp, wr,
          allocFailed, nullAccess, nanCast, spin, exitStatus, errAt>>

(* ----------------------------- inputs --------------------------------- *)
\* Scale-specs given as argv[1].
ScaleSpecs == {"2x", "0", "-1", "abc", "0.25", "0.5", "1.0", "1.25"}

\* atof(argv[1]) as 4*value: the longest numeric prefix, 0 when there is none.
atof4(s) ==
    CASE s = "2x"   -> 8
      [] s = "0"    -> 0
      [] s = "-1"   -> -4
      [] s = "abc"  -> 0
      [] s = "0.25" -> 1
      [] s = "0.5"  -> 2
      [] s = "1.0"  -> 4
      [] s = "1.25" -> 5

\* Pixel contents of the input files: three families of images.
Patterns == {"uniform", "corners", "ramp"}

Pix(pat, px, py) ==
    CASE pat = "uniform" -> <<200, 100, 50>>
      [] pat = "corners" ->
            IF py % 2 = 0
            THEN (IF px % 2 = 0 THEN <<0, 0, 0>> ELSE <<255, 255, 255>>)
            ELSE (IF px % 2 = 0 THEN <<255, 0, 0>> ELSE <<0, 255, 0>>)
      [] pat = "ramp" ->
            <<(41 * px + 97 * py + 5) % 256,
              255 - ((50 * px + 7 * py) % 256),
              (53 * px * py + 3 * px + 254) % 256>>

\* The row-major pixel block of a w x h image.
PixelBlock(w, h, pat) ==
    [i \in 1..(w * h) |-> Pix(pat, (i - 1) % w, (i - 1) \div w)]

\* A well-formed P6 file of w x h pixels; full = FALSE: the block is cut short.
GoodFile(w, h, pat, full) ==
    [exists |-> TRUE, magic |-> "P6", comment |-> "ok", sizeOk |-> TRUE,
     W |-> w, H |-> h, maxOk |-> TRUE, maxval |-> 255, nl |-> TRUE,
     full |-> full, pat |-> pat]

NominalFile == GoodFile(2, 2, "uniform", TRUE)

\* Files with one defect each.
BadFiles ==
    { [NominalFile EXCEPT !.exists = FALSE],     \* cannot be opened
      [NominalFile EXCEPT !.magic = ""],         \* empty: fgets fails
      [NominalFile EXCEPT !.magic = "P5"],       \* wrong format marker
      [NominalFile EXCEPT !.comment = "eof"],    \* ends inside a comment
      [NominalFile EXCEPT !.sizeOk = FALSE],     \* malformed size line
      [NominalFile EXCEPT !.maxOk = FALSE],      \* malformed max value
      [NominalFile EXCEPT !.maxval = 65535],     \* 16-bit samples
      [NominalFile EXCEPT !.nl = FALSE] }        \* ends after the max value

InFiles ==
    BadFiles \cup
    { GoodFile(w, h, pat, full) :
        w \in 0..MaxW, h \in 0..MaxH, pat \in Patterns, full \in BOOLEAN }

NoImage == [alloc |-> FALSE, x |-> 0, y |-> 0, data |-> <<>>,
            bytes |-> 0, dataNull |-> FALSE]
NoSamp == [xn |-> 0, xd |-> 1, xint |-> 0, xfn |-> 0, xfd |-> 1,
           yn |-> 0, yd |-> 1, yint |-> 0, yfn |-> 0, yfd |-> 1,
           nan |-> FALSE, valid |-> FALSE]
NoNanCast == [set |-> FALSE, int |-> 0, byte |-> 0]

InitCommon ==
    /\ scale = 0
    /\ inOpened = FALSE
    /\ removed = FALSE
    /\ outOpened = FALSE
    /\ destination_image = NoImage
    /\ dx = 0 /\ dy = 0
    /\ calls = <<>>
    /\ reads = {}
    /\ samp = NoSamp
    /\ wr = -1
    /\ allocFailed = "none"
    /\ nullAccess = FALSE
    /\ nanCast = NoNanCast
    /\ spin = 0
    /\ exitStatus = -1
    /\ errAt = "none"

Init ==
    /\ pc = "main"
    /\ \/ argc = 4 /\ argv1 \in ScaleSpecs /\ inFile \in InFiles
       \/ argc = 3 /\ argv1 = "0.5" /\ inFile = NominalFile
    /\ outFile \in { [st |-> "absent", x |-> 0, y |-> 0, data |-> <<>>],
                     [st |-> "old", x |-> 0, y |-> 0, data |-> <<>>] }
    /\ source_image = NoImage
    /\ InitCommon

(* ------------------------------- exit --------------------------------- *)
\* exit(status) / return(status) from main.
Exit(status, why) ==
    /\ pc' = "exit"
    /\ exitStatus' = status
    /\ errAt' = why

(* ------------------------------- main --------------------------------- *)
\* Variant: the test written scale < 0.0.
ScaleRejected_Strict(arg, sc) == arg # "2x" /\ sc < 0

\* strcmp(argv[1], "2x") && (scale <= 0.0)
ScaleRejected(arg, sc) == arg # "2x" /\ sc <= 0

\* main up to the call of readPPM: usage, atof, the scale check, remove().
MainStart ==
    /\ pc = "main"
    /\ IF argc # 4
       THEN /\ Exit(99, "usage")
            /\ UNCHANGED <<scale, outFile, removed>>
       ELSE /\ scale' = atof4(argv1)
            /\ IF ScaleRejected(argv1, atof4(argv1))
               THEN /\ Exit(99, "scale")
                    /\ UNCHANGED <<outFile, removed>>
               ELSE /\ removed' = TRUE
                    /\ outFile' = [outFile EXCEPT !.st = "absent"]
                    /\ pc' = "rd_open"
                    /\ UNCHANGED <<exitStatus, errAt>>
    /\ UNCHANGED <<argc, argv1, inFile, inOpened, outOpened, source_image,
                   destination_image, dx, dy, calls, reads, samp, wr,
                   allocFailed, nullAccess, nanCast, spin>>

(* ------------------------------ readPPM ------------------------------- *)
UnchangedByRead ==
    UNCHANGED <<argc, argv1, scale, inFile, removed, outFile, outOpened,
                destination_image, dx, dy, calls, reads, samp, wr, nanCast>>

\* fopen(filename, "rb") and its check.
RdOpen ==
    /\ pc = "rd_open"
    /\ inOpened' = TRUE
    /\ IF ~inFile.exists
       THEN Exit(1, "open")
       ELSE pc' = "rd_format" /\ UNCHANGED <<exitStatus, errAt>>
    /\ UNCHANGED <<source_image, allocFailed, nullAccess, spin>>
    /\ UnchangedByRead

\* fgets of the first line and the 'P6' check.
RdFormat ==
    /\ pc = "rd_format"
    /\ IF inFile.magic = ""
       THEN Exit(1, "fgets")
       ELSE IF inFile.magic # "P6"
       THEN Exit(1, "format")
       ELSE pc' = "rd_alloc_img" /\ UNCHANGED <<exitStatus, errAt>>
    /\ UNCHANGED <<inOpened, source_image, allocFailed, nullAccess, spin>>
    /\ UnchangedByRead

\* img = malloc(sizeof(PPMImage)) and its check.
RdAllocImg ==
    /\ pc = "rd_alloc_img"
    /\ \E ok \in BOOLEAN :
         IF ~ok
         THEN /\ allocFailed' = "readPPM.img"
              /\ Exit(1, "alloc")
              /\ UNCHANGED source_image
         ELSE /\ source_image' = [NoImage EXCEPT !.alloc = TRUE]
              /\ pc' = "rd_comments"
              /\ UNCHANGED <<allocFailed, exitStatus, errAt>>
    /\ UNCHANGED <<inOpened, nullAccess, spin>>
    /\ UnchangedByRead

\* The comment loop: while (getc(fp) != '\n'); never ends once getc
\* returns EOF, which is what it does in a file that ends inside a comment.
RdComments ==
    /\ pc = "rd_comments"
    /\ IF inFile.comment = "eof"
       THEN spin < MaxSpin /\ spin' = spin + 1 /\ UNCHANGED pc
       ELSE pc' = "rd_size" /\ UNCHANGED spin
    /\ UNCHANGED <<inOpened, source_image, allocFailed, nullAccess,
                   exitStatus, errAt>>
    /\ UnchangedByRead

\* fscanf(fp, "%d %d", &img->x, &img->y)
RdSize ==
    /\ pc = "rd_size"
    /\ IF ~inFile.sizeOk
       THEN Exit(1, "size") /\ UNCHANGED source_image
       ELSE /\ source_image' =
                 [source_image EXCEPT !.x = inFile.W, !.y = inFile.H]
            /\ pc' = "rd_maxval"
            /\ UNCHANGED <<exitStatus, errAt>>
    /\ UNCHANGED <<inOpened, allocFailed, nullAccess, spin>>
    /\ UnchangedByRead

\* Variant: the depth test written rgb_comp_color < RGB_COMPONENT_COLOR.
DepthRejected_Below(rgb_comp_color) == rgb_comp_color < RGB_COMPONENT_COLOR

\* fscanf(fp, "%d", &rgb_comp_color) and the depth check.
DepthRejected(rgb_comp_color) == rgb_comp_color # RGB_COMPONENT_COLOR

RdMaxval ==
    /\ pc = "rd_maxval"
    /\ IF ~inFile.maxOk
       THEN Exit(1, "rgb")
       ELSE IF DepthRejected(inFile.maxval)
       THEN Exit(1, "depth")
       ELSE pc' = "rd_skipnl" /\ UNCHANGED <<exitStatus, errAt>>
    /\ UNCHANGED <<inOpened, source_image, allocFailed, nullAccess, spin>>
    /\ UnchangedByRead

\* while (fgetc(fp) != '\n'); never ends in a file that stops after the
\* max value.
RdSkipNl ==
    /\ pc = "rd_skipnl"
    /\ IF ~inFile.nl
       THEN spin < MaxSpin /\ spin' = spin + 1 /\ UNCHANGED pc
       ELSE pc' = "rd_alloc_data" /\ UNCHANGED spin
    /\ UNCHANGED <<inOpened, source_image, allocFailed, nullAccess,
                   exitStatus, errAt>>
    /\ UnchangedByRead

\* The test made after each pixel-array malloc: if(!img), the header pointer.
AllocCheckFails(img) == ~img.alloc

\* img->data = malloc(img->x * img->y * sizeof(PPMPixel)); if(!img) ...
RdAllocData ==
    /\ pc = "rd_alloc_data"
    /\ \E ok \in BOOLEAN :
        LET img == [source_image EXCEPT
                      !.bytes = source_image.x * source_image.y * SizeofPPMPixel,
                      !.dataNull = ~ok]
        IN /\ source_image' = img
           /\ allocFailed' = IF ok THEN allocFailed ELSE "readPPM.data"
           /\ IF AllocCheckFails(img)
              THEN Exit(1, "alloc")
              ELSE pc' = "rd_pixels" /\ UNCHANGED <<exitStatus, errAt>>
    /\ UNCHANGED <<inOpened, nullAccess, spin>>
    /\ UnchangedByRead

\* fread(img->data, 3 * img->x, img->y, fp) != img->y, then fclose.
\* fread returns 0 without touching the buffer when size or count is 0.
\* With a NULL buffer and bytes to store the behaviour is undefined: the
\* store faults (SIGSEGV), or the read fails and fread returns short.
RdPixels ==
    /\ pc = "rd_pixels"
    /\ LET size  == 3 * source_image.x
           count == source_image.y
       IN IF size = 0 \/ count = 0
          THEN /\ IF 0 # count
                  THEN Exit(1, "load")
                  ELSE pc' = "dispatch" /\ UNCHANGED <<exitStatus, errAt>>
               /\ UNCHANGED <<source_image, nullAccess>>
          ELSE IF source_image.dataNull
          THEN /\ nullAccess' = TRUE
               /\ \/ Exit(139, "segv")
                  \/ Exit(1, "load")
               /\ UNCHANGED source_image
          ELSE IF ~inFile.full
          THEN /\ Exit(1, "load")
               /\ UNCHANGED <<source_image, nullAccess>>
          ELSE /\ source_image' =
                    [source_image EXCEPT
                       !.data = PixelBlock(inFile.W, inFile.H, inFile.pat)]
               /\ pc' = "dispatch"
               /\ UNCHANGED <<nullAccess, exitStatus, errAt>>
    /\ UNCHANGED <<inOpened, allocFailed, spin>>
    /\ UnchangedByRead

readPPM ==
    \/ RdOpen \/ RdFormat \/ RdAllocImg \/ RdComments \/ RdSize
    \/ RdMaxval \/ RdSkipNl \/ RdAllocData \/ RdPixels

(* ----------------------- init_destination_image ----------------------- *)
\* What a malloc'ed pixel slot holds before it is stored to.
Uninit == <<-1, -1, -1>>

\* Variant: the byte count as the debug printf computes it, with
\* (int)(scale+.1) and (int)(scale+.5).
AllocBytes_IntCast(source, s4) ==
    source.x * ((10 * s4 + 4) \div 40) * source.y * ((s4 + 2) \div 4)
        * SizeofPPMPixel

\* The byte count handed to malloc:
\*    source->x*(scale+.1)*source->y*(scale+.5)*sizeof(PPMPixel)
\* a double converted to size_t.  With scale = s4/4, scale+.1 = (10*s4+4)/40
\* and scale+.5 = (s4+2)/4.
AllocBytes(source, s4) ==
    (source.x * (10 * s4 + 4) * source.y * (s4 + 2) * SizeofPPMPixel) \div 160

\* The image init_destination_image returns when its header malloc
\* succeeds; x and y are set by the caller.
init_destination_image(source, s4, okData) ==
    LET bytes == AllocBytes(source, s4)
    IN [alloc |-> TRUE, x |-> 0, y |-> 0,
        data |-> IF okData
                 THEN [i \in 1..(bytes \div SizeofPPMPixel) |-> Uninit]
                 ELSE <<>>,
        bytes |-> IF okData THEN bytes ELSE 0,
        dataNull |-> ~okData]

UnchangedByResize ==
    UNCHANGED <<argc, argv1, scale, inFile, inOpened, removed, outFile,
                outOpened, source_image, spin>>

\* The pixel at data[idx]; outside the array the read is out of bounds.
Load(img, idx) ==
    IF (idx + 1) \in DOMAIN img.data THEN img.data[idx + 1] ELSE Uninit

\* data[idx] = pixel; outside the allocation the store corrupts the heap
\* and is not kept.
Store(img, idx, pixel) ==
    IF (idx + 1) \in DOMAIN img.data
    THEN [img EXCEPT !.data[idx + 1] = pixel]
    ELSE img

\* The for loops over y and x: the counters after the body at (px, py).
NextXY(img, px, py) ==
    IF px + 1 < img.x THEN <<px + 1, py>> ELSE <<0, py + 1>>

(* ------------------------------ resize2 ------------------------------- *)
\* Variant: the lower row taken at 2*y+2.
Resize2Index_NextRow(source, px, py) ==
    << 2 * px     + source.x * 2 * py,
       2 * px + 1 + source.x * 2 * py,
       2 * px     + source.x * (2 * py + 2),
       2 * px + 1 + source.x * (2 * py + 2) >>

\* The four source indices read for destination pixel (px, py).
Resize2Index(source, px, py) ==
    << 2 * px     + source.x * 2 * py,
       2 * px + 1 + source.x * 2 * py,
       2 * px     + source.x * (2 * py + 1),
       2 * px + 1 + source.x * (2 * py + 1) >>

\* Variant: the four samples summed, then divided once.
Resize2Channel_SumFirst(a, b, c, d) == ((a + b + c + d) \div 4) % 256

\* One channel: an unsigned char assigned a/4, then += b/4, c/4, d/4.
Resize2Channel(a, b, c, d) ==
    LET v0 == (a \div 4) % 256
        v1 == (v0 + b \div 4) % 256
        v2 == (v1 + c \div 4) % 256
    IN (v2 + d \div 4) % 256

Resize2Pixel(source, px, py) ==
    LET idx == Resize2Index(source, px, py)
        p   == [k \in 1..4 |-> Load(source, idx[k])]
    IN [ch \in 1..3 |-> Resize2Channel(p[1][ch], p[2][ch], p[3][ch], p[4][ch])]

\* main's "2x" branch up to the loops of resize2: init_destination_image
\* with scale 0.5, then the destination size.
MainResize2 ==
    /\ pc = "dispatch"
    /\ argv1 = "2x"
    /\ \E okImg, okData \in BOOLEAN :
        IF ~okImg
        THEN /\ allocFailed' = "init.img"
             /\ Exit(1, "alloc")
             /\ UNCHANGED destination_image
        ELSE LET img == init_destination_image(source_image, 2, okData)
                 d   == [img EXCEPT !.x = source_image.x \div 2,
                                    !.y = source_image.y \div 2]
             IN /\ allocFailed' = IF okData THEN allocFailed ELSE "init.data"
                /\ IF AllocCheckFails(img)
                   THEN Exit(1, "alloc") /\ UNCHANGED destination_image
                   ELSE /\ destination_image' = d
                        /\ pc' = IF d.x > 0 /\ d.y > 0 THEN "r2_loop" ELSE "write"
                        /\ UNCHANGED <<exitStatus, errAt>>
    /\ UNCHANGED <<dx, dy, calls, reads, samp, wr, nullAccess, nanCast>>
    /\ UnchangedByResize

\* One pass through the body of resize2's loops.  A store through a NULL
\* data pointer faults.
Resize2Step ==
    /\ pc = "r2_loop"
    /\ IF destination_image.dataNull
       THEN /\ nullAccess' = TRUE
            /\ Exit(139, "segv")
            /\ UNCHANGED <<destination_image, dx, dy, reads, wr>>
       ELSE LET idx == dx + destination_image.x * dy
                nxt == NextXY(destination_image, dx, dy)
            IN /\ destination_image' =
                     Store(destination_image, idx,
                           Resize2Pixel(source_image, dx, dy))
               /\ reads' = { Resize2Index(source_image, dx, dy)[k] : k \in 1..4 }
               /\ wr' = idx
               /\ dx' = nxt[1]
               /\ dy' = nxt[2]
               /\ pc' = IF nxt[2] < destination_image.y THEN "r2_loop" ELSE "write"
               /\ UNCHANGED <<nullAccess, exitStatus, errAt>>
    /\ UNCHANGED <<calls, samp, allocFailed, nanCast>>
    /\ UnchangedByResize

(* -------------------------- get_pixel_clamped ------------------------- *)
\* #define CLAMP(v, min, max) if(v < min) { v = min; } else if(v > max) { v = max; }
CLAMP(v, min, max) == IF v < min THEN min ELSE IF v > max THEN max ELSE v

\* Variant: x and y clamped to the dimension instead of dimension - 1.
get_pixel_clamped_Dim(source, px, py) ==
    LET cx  == CLAMP(px, 0, source.x)
        cy  == CLAMP(py, 0, source.y)
        idx == cx + (source.x * cy)
    IN [x |-> px, y |-> py, idx |-> idx, temp |-> Load(source, idx)]

\* One call: the arguments, the index x+(source_image->x*y) it reads after
\* clamping, and the three bytes it returns in temp[].
get_pixel_clamped(source, px, py) ==
    LET cx  == CLAMP(px, 0, source.x - 1)
        cy  == CLAMP(py, 0, source.y - 1)
        idx == cx + (source.x * cy)
    IN [x |-> px, y |-> py, idx |-> idx, temp |-> Load(source, idx)]

(* ---------------------------- cubic_hermite --------------------------- *)
\* cubic_hermite(A, B, C, D, t) at t = n/m, times 2*m^3:
\*   a = -A/2 + 3B/2 - 3C/2 + D/2,  b = A - 5B/2 + 2C - D/2,
\*   c = -A/2 + C/2,  d = B,  result a*t*t*t + b*t*t + c*t + d.
cubic_hermite(A, B, C, D, n, m) ==
    LET a2 == -A + 3 * B - 3 * C + D
        b2 == 2 * A - 5 * B + 4 * C - D
        c2 == -A + C
        d  == B
    IN a2 * n * n * n + b2 * n * n * m + c2 * n * m * m + 2 * d * m * m * m

(* ---------------------------- sample_bicubic -------------------------- *)
RECURSIVE Gcd(_, _)
Gcd(a, b) == IF b = 0 THEN a ELSE Gcd(b, a % b)

\* (int)(n/d) for d > 0: C converts a double to int by discarding the
\* fraction (toward zero).
IntCast(n, d) == IF n >= 0 THEN n \div d ELSE -((-n) \div d)

\* floor(n/d) for d > 0.
floor(n, d) == n \div d

\* int + k in 32 bits (k small), wrapping as the usual builds do.
Add32(a, k) ==
    IF k < 0 /\ a < IntMin - k THEN IntMax + ((a - IntMin) + k + 1)
    ELSE IF k > 0 /\ a > IntMax - k THEN IntMin + ((a - IntMax) + k - 1)
    ELSE a + k

\* What a build can yield for (int)NaN and (uint8_t)NaN, both undefined.
NanCasts ==
    { [set |-> TRUE, int |-> i, byte |-> b] : i \in {IntMin, 0}, b \in {0, 255} }

\* One axis of sample_bicubic for u = un/ud (NaN when ud = 0, from 0.0/0.0)
\* and an image of `size` columns:
\*    double x = (u * size) - 0.5;  int xint = (int)x;
\*    double xfract = x - floor(x);
\* x = n/d; xfract = fn/fd in lowest terms.
Axis(un, ud, size, nc) ==
    IF ud = 0
    THEN [n |-> 0, d |-> 0, int |-> nc.int, fn |-> 0, fd |-> 0, nan |-> TRUE]
    ELSE LET n == 2 * un * size - ud
             d == 2 * ud
             r == n - d * floor(n, d)
             g == Gcd(d, r)
         IN [n |-> n, d |-> d, int |-> IntCast(n, d),
             fn |-> r \div g, fd |-> d \div g, nan |-> FALSE]

\* The sixteen get_pixel_clamped calls, in the order of the code:
\* rows yint-1 .. yint+2, in each row xint-1 .. xint+2.
Neighbourhood(source, xint, yint) ==
    [k \in 1..16 |->
        get_pixel_clamped(source,
                          Add32(xint, ((k - 1) % 4) - 1),
                          Add32(yint, ((k - 1) \div 4) - 1))]

\* sample[i] for channel ch.  col0..col3 are fractions over Dx = 2*fd^3 of
\* the x axis; each is split into its whole part and the rest (hermite is
\* linear in A..D), so that floor(value) is computed exactly within 32 bits.
\* CLAMP(value, 0, 255) followed by (uint8_t)value is floor(value) clamped.
\* The fractions are exact where the C doubles are rounded: a value that is
\* exactly an integer k can come out of the double arithmetic just below k
\* and be stored as k-1.  For the images, patterns and factors of this
\* model (up to MaxW+1 x MaxH+1) the two agree on every stored byte.
BicubicChannel(p, ch, ax, ay) ==
    LET Dx  == 2 * ax.fd * ax.fd * ax.fd
        Dy  == 2 * ay.fd * ay.fd * ay.fd
        col == [j \in 0..3 |->
                   cubic_hermite(p[4 * j + 1].temp[ch], p[4 * j + 2].temp[ch],
                                 p[4 * j + 3].temp[ch], p[4 * j + 4].temp[ch],
                                 ax.fn, ax.fd)]
        whole == [j \in 0..3 |-> col[j] \div Dx]
        rest  == [j \in 0..3 |-> col[j] % Dx]
        vw == cubic_hermite(whole[0], whole[1], whole[2], whole[3], ay.fn, ay.fd)
        vr == cubic_hermite(rest[0], rest[1], rest[2], rest[3], ay.fn, ay.fd)
    IN CLAMP((vw + vr \div Dx) \div Dy, 0, 255)

\* sample_bicubic(source_image, u, v, sample) for u = un/ud, v = vn/vd.
\* With a NaN coordinate every value is NaN, CLAMP leaves it alone and the
\* cast to uint8_t is undefined.
sample_bicubic(source, un, ud, vn, vd, nc) ==
    LET ax == Axis(un, ud, source.x, nc)
        ay == Axis(vn, vd, source.y, nc)
        p  == Neighbourhood(source, ax.int, ay.int)
    IN [calls  |-> p,
        locals |-> [xn |-> ax.n, xd |-> ax.d, xint |-> ax.int,
                    xfn |-> ax.fn, xfd |-> ax.fd,
                    yn |-> ay.n, yd |-> ay.d, yint |-> ay.int,
                    yfn |-> ay.fn, yfd |-> ay.fd,
                    nan |-> ax.nan \/ ay.nan, valid |-> TRUE],
        sample |-> IF ax.nan \/ ay.nan
                   THEN <<nc.byte, nc.byte, nc.byte>>
                   ELSE [ch \in 1..3 |-> BicubicChannel(p, ch, ax, ay)]]

(* ----------------------------- resize_image --------------------------- *)
\* (long)((double)(size)*scale) for scale = s4/4.
ScaledSize(size, s4) == IntCast(size * s4, 4)

\* main's factor branch up to the loops of resize_image:
\* init_destination_image with scale, then the destination size.
MainResizeImage ==
    /\ pc = "dispatch"
    /\ argv1 # "2x"
    /\ \E okImg, okData \in BOOLEAN :
        IF ~okImg
        THEN /\ allocFailed' = "init.img"
             /\ Exit(1, "alloc")
             /\ UNCHANGED destination_image
        ELSE LET img == init_destination_image(source_image, scale, okData)
                 d   == [img EXCEPT !.x = ScaledSize(source_image.x, scale),
                                    !.y = ScaledSize(source_image.y, scale)]
             IN /\ allocFailed' = IF okData THEN allocFailed ELSE "init.data"
                /\ IF AllocCheckFails(img)
                   THEN Exit(1, "alloc") /\ UNCHANGED destination_image
                   ELSE /\ destination_image' = d
                        /\ pc' = IF d.x > 0 /\ d.y > 0 THEN "ri_loop" ELSE "write"
                        /\ UNCHANGED <<exitStatus, errAt>>
    /\ UNCHANGED <<dx, dy, calls, reads, samp, wr, nullAccess, nanCast>>
    /\ UnchangedByResize

\* One pass through the body of resize_image's loops:
\*    v = y / (dest->y - 1);  u = x / (dest->x - 1);
\*    sample_bicubic(source_image, u, v, sample);  dest->data[x + dest->x*y] = sample
ResizeImageStep ==
    /\ pc = "ri_loop"
    /\ \E nc \in (IF destination_image.x # 1 /\ destination_image.y # 1
                  THEN {nanCast}
                  ELSE IF nanCast.set THEN {nanCast} ELSE NanCasts) :
        LET s   == sample_bicubic(source_image, dx, destination_image.x - 1,
                                  dy, destination_image.y - 1, nc)
            idx == dx + destination_image.x * dy
            nxt == NextXY(destination_image, dx, dy)
        IN /\ calls' = s.calls
           /\ samp' = s.locals
           /\ nanCast' = nc
           /\ IF destination_image.dataNull
              THEN /\ nullAccess' = TRUE
                   /\ Exit(139, "segv")
                   /\ UNCHANGED <<destination_image, dx, dy, wr>>
              ELSE /\ destination_image' = Store(destination_image, idx, s.sample)
                   /\ wr' = idx
                   /\ dx' = nxt[1]
                   /\ dy' = nxt[2]
                   /\ pc' = IF nxt[2] < destination_image.y THEN "ri_loop" ELSE "write"
                   /\ UNCHANGED <<nullAccess, exitStatus, errAt>>
    /\ UNCHANGED <<reads, allocFailed>>
    /\ UnchangedByResize

(* ------------------------------ writePPM ------------------------------ *)
\* The first n pixels of an array.
Take(data, n) ==
    [i \in 1..(IF n < Len(data) THEN n ELSE Len(data)) |-> data[i]]

\* writePPM(argv[3], destination_image), the frees and return(0).
WritePPM ==
    /\ pc = "write"
    /\ outOpened' = TRUE
    /\ \E ok \in BOOLEAN :
         IF ~ok
         THEN Exit(1, "open_out") /\ UNCHANGED outFile
         ELSE /\ outFile' =
                   [st |-> "new",
                    x |-> destination_image.x, y |-> destination_image.y,
                    data |-> Take(destination_image.data,
                                  destination_image.x * destination_image.y)]
              /\ Exit(0, "none")
    /\ UNCHANGED <<argc, argv1, scale, inFile, inOpened, removed,
                   source_image, destination_image, dx, dy, calls, reads,
                   samp, wr, allocFailed, nullAccess, nanCast, spin>>

Next ==
    \/ MainStart
    \/ readPPM
    \/ MainResize2
    \/ Resize2Step
    \/ MainResizeImage
    \/ ResizeImageStep
    \/ WritePPM

Spec == Init /\ [][Next]_vars

(* ------------- get_pixel_clamped on its own (pure function) ----------- *)
\* Coordinates handed to get_pixel_clamped: a range around the image and
\* the two ends of int.
Coords == (-MaxCoord .. MaxCoord) \cup {IntMin, IntMax}

\* An image as readPPM returns it, of at least one pixel.
InitGPC ==
    /\ pc = "gpc"
    /\ argc = 4
    /\ argv1 = "1.0"
    /\ \E w \in 1..MaxW, h \in 1..MaxH, pat \in Patterns :
         /\ inFile = GoodFile(w, h, pat, TRUE)
         /\ source_image =
               [alloc |-> TRUE, x |-> w, y |-> h,
                data |-> PixelBlock(w, h, pat),
                bytes |-> w * h * SizeofPPMPixel, dataNull |-> FALSE]
    /\ outFile = [st |-> "absent", x |-> 0, y |-> 0, data |-> <<>>]
    /\ InitCommon

\* One call of get_pixel_clamped on that image.
GetPixelClamped ==
    /\ pc = "gpc"
    /\ calls = <<>>
    /\ \E px, py \in Coords :
         calls' = << get_pixel_clamped(source_image, px, py) >>
    /\ UNCHANGED <<pc, argc, argv1, scale, inFile, inOpened, removed, outFile,
                   outOpened, source_image, destination_image, dx, dy, reads,
                   samp, wr, allocFailed, nullAccess, nanCast, spin,
                   exitStatus, errAt>>

NextGPC == GetPixelClamped

SpecGPC == InitGPC /\ [][NextGPC]_vars

(* ====================================================================== *)
(*                               Properties                               *)
(* ====================================================================== *)
NoOutput == ~outOpened /\ outFile.st # "new"

\* C1.  A run with three arguments whose scale-spec is not "2x" and whose
\* parsed factor is <= 0 ends with status 99 before any file operation:
\* the output path is not removed, the input is not opened, nothing is
\* written.
C1_RejectedBeforeFiles ==
    (argc = 4 /\ argv1 # "2x" /\ atof4(argv1) <= 0 /\ pc # "main") =>
        /\ pc = "exit"
        /\ exitStatus = 99
        /\ ~removed
        /\ ~inOpened
        /\ NoOutput
        /\ outFile.st \in {"absent", "old"}

C1_Witness ==
    /\ pc = "exit"
    /\ argc = 4
    /\ argv1 = "abc"
    /\ exitStatus = 99
    /\ outFile.st = "old"

\* The run is the "2x" run on the 4x4 image of (200,100,50) pixels and
\* resize2 has returned.
Uniform4x4Halved ==
    /\ argv1 = "2x"
    /\ inFile = GoodFile(4, 4, "uniform", TRUE)
    /\ pc = "write"

\* C2 as claimed.  resize2 on the 4x4 source of (200,100,50) pixels returns
\* a 2x2 destination in which every pixel is exactly (200,100,50).
C2_Original ==
    Uniform4x4Halved =>
        /\ destination_image.x = 2
        /\ destination_image.y = 2
        /\ \A i \in 0..3 : Load(destination_image, i) = <<200, 100, 50>>

\* C2 as amended.  resize2 on the 4x4 source of (200,100,50) pixels returns
\* a 2x2 destination in which every pixel is exactly (200,100,48): each
\* channel is four times floor(v/4), and 50 is not a multiple of 4.
C2_Amended ==
    Uniform4x4Halved =>
        /\ destination_image.x = 2
        /\ destination_image.y = 2
        /\ \A i \in 0..3 : Load(destination_image, i) = <<200, 100, 48>>

C2_Witness ==
    /\ Uniform4x4Halved
    /\ wr = 3
    /\ source_image.data = [i \in 1..16 |-> <<200, 100, 50>>]

\* floor(a/4)+floor(b/4)+floor(c/4)+floor(d/4) over the samples the input
\* file holds at (2x,2y), (2x+1,2y), (2x,2y+1), (2x+1,2y+1).
BoxSum(pat, px, py, ch) ==
      Pix(pat, 2 * px,     2 * py)[ch] \div 4
    + Pix(pat, 2 * px + 1, 2 * py)[ch] \div 4
    + Pix(pat, 2 * px,     2 * py + 1)[ch] \div 4
    + Pix(pat, 2 * px + 1, 2 * py + 1)[ch] \div 4

\* C3.  For a source of width >= 2 and height >= 2, resize2 makes a
\* destination of floor(W/2) x floor(H/2); every pixel stored so far holds,
\* in each channel, the sum of the four floored quarters, which never
\* exceeds 255; and the four source reads lie inside the source buffer.
C3_BoxDownsample ==
    ( /\ argv1 = "2x"
      /\ pc \in {"r2_loop", "write", "exit"}
      /\ destination_image.alloc
      /\ ~destination_image.dataNull
      /\ source_image.x >= 2
      /\ source_image.y >= 2 ) =>
        /\ destination_image.x = inFile.W \div 2
        /\ destination_image.y = inFile.H \div 2
        /\ \A i \in 0..(dx + destination_image.x * dy - 1) :
             \A ch \in 1..3 :
               LET sum == BoxSum(inFile.pat, i % destination_image.x,
                                 i \div destination_image.x, ch)
               IN sum <= 255 /\ Load(destination_image, i)[ch] = sum
        /\ reads \subseteq 0..(source_image.x * source_image.y - 1)

C3_Witness ==
    /\ argv1 = "2x"
    /\ pc = "write"
    /\ inFile = GoodFile(5, 7, "ramp", TRUE)
    /\ destination_image.x = 2
    /\ destination_image.y = 3
    /\ wr = 5
    /\ Cardinality(reads) = 4

\* C4 as claimed.  resize_image on the 2x2 source (0,0,0), (255,255,255),
\* (255,0,0), (0,255,0) with factor 1.0 makes a 2x2 destination whose four
\* pixels equal the source's.
C4_Original ==
    ( /\ argv1 = "1.0"
      /\ inFile = GoodFile(2, 2, "corners", TRUE)
      /\ pc = "write" ) =>
        /\ destination_image.x = 2
        /\ destination_image.y = 2
        /\ \A i \in 0..3 : Load(destination_image, i) = Load(source_image, i)

\* The pixel the input file holds at the in-range position nearest to
\* (px, py).
NearestStored(px, py) ==
    LET cx == CHOOSE c \in 0..(inFile.W - 1) :
                 (px < 0 => c = 0) /\ (px > inFile.W - 1 => c = inFile.W - 1)
                 /\ (px \in 0..(inFile.W - 1) => c = px)
        cy == CHOOSE c \in 0..(inFile.H - 1) :
                 (py < 0 => c = 0) /\ (py > inFile.H - 1 => c = inFile.H - 1)
                 /\ (py \in 0..(inFile.H - 1) => c = py)
    IN Pix(inFile.pat, cx, cy)

\* C5.  For a buffer of width >= 1 and height >= 1 and any integers x, y,
\* get_pixel_clamped returns the pixel stored at (clamp(x,0,width-1),
\* clamp(y,0,height-1)), and the index it reads is in 0 .. width*height-1.
C5_ClampedRead ==
    \A k \in DOMAIN calls :
        /\ calls[k].idx \in 0..(source_image.x * source_image.y - 1)
        /\ calls[k].temp = NearestStored(calls[k].x, calls[k].y)

C5_Witness ==
    /\ pc = "gpc"
    /\ Len(calls) = 1
    /\ calls[1].x < 0
    /\ calls[1].y >= source_image.y
    /\ source_image.x > 1
    /\ calls[1].idx = source_image.x * (source_image.y - 1)

\* The destination would have no pixels: a zero width or height on the
\* factor path, a source below 2x2 on the "2x" path.
DegenerateGeometry ==
    IF argv1 = "2x"
    THEN source_image.x < 2 \/ source_image.y < 2
    ELSE \/ (source_image.x * scale) \div 4 = 0
         \/ (source_image.y * scale) \div 4 = 0

\* C6 as claimed.  Once the source is read, degenerate geometry is rejected:
\* the run ends with an error status and writes no output image.
C6_Original ==
    (destination_image.alloc /\ DegenerateGeometry) =>
        /\ outFile.st # "new"
        /\ pc = "exit" => exitStatus # 0

\* C7 as claimed.  Every allocation failure is fatal at once: the process
\* has ended with an error status and the buffer was never accessed.
C7_Original ==
    allocFailed # "none" =>
        /\ pc = "exit"
        /\ exitStatus # 0
        /\ ~nullAccess

\* The input file has one of the defects readPPM reports.
InputDefect ==
    \/ ~inFile.exists
    \/ inFile.magic # "P6"
    \/ ~inFile.sizeOk
    \/ ~inFile.maxOk
    \/ inFile.maxval # 255
    \/ (~inFile.full /\ inFile.W > 0 /\ inFile.H > 0)

ReadErrors == {"open", "fgets", "format", "size", "rgb", "depth", "load"}

\* C8.  A run on an input that cannot be opened, has a wrong format
\* marker, a malformed size or max value, a max value other than 255 or a
\* truncated pixel block never opens or writes the output file, and when
\* it has ended its status is not 0; and every run ended by one of
\* readPPM's diagnostics has a non-zero status and no output.
C8_FailFast ==
    /\ (argc = 4 /\ InputDefect) =>
          /\ NoOutput
          /\ pc = "exit" => exitStatus # 0
    /\ (pc = "exit" /\ errAt \in ReadErrors) =>
          /\ exitStatus # 0
          /\ NoOutput

C8_Witness ==
    /\ pc = "exit"
    /\ errAt = "depth"
    /\ exitStatus = 1
    /\ inFile.maxval = 65535
    /\ removed
    /\ outFile.st = "absent"

\* C9 as claimed.  In sample_bicubic, for u and v in [0,1],
\* xint = floor(u*W - 0.5), yint = floor(v*H - 0.5), xfract = x - xint and
\* yfract = y - yint.
C9_Original ==
    (samp.valid /\ ~samp.nan) =>
        /\ samp.xint = floor(samp.xn, samp.xd)
        /\ samp.yint = floor(samp.yn, samp.yd)
        /\ samp.xfn * samp.xd = (samp.xn - samp.xint * samp.xd) * samp.xfd
        /\ samp.yfn * samp.yd = (samp.yn - samp.yint * samp.yd) * samp.yfd

\* C10.  A destination buffer that malloc returned holds at least
\* 3*floor(W*s)*floor(H*s) bytes on the factor path and at least
\* 3*floor(W/2)*floor(H/2) bytes on the "2x" path, and every pixel stored
\* by resize_image or resize2 lies inside it.
C10_DestinationFits ==
    (destination_image.alloc /\ ~destination_image.dataNull) =>
        /\ IF argv1 = "2x"
           THEN destination_image.bytes >=
                   3 * (inFile.W \div 2) * (inFile.H \div 2)
           ELSE destination_image.bytes >=
                   3 * ((inFile.W * atof4(argv1)) \div 4)
                     * ((inFile.H * atof4(argv1)) \div 4)
        /\ destination_image.bytes >=
              3 * destination_image.x * destination_image.y
        /\ 3 * (wr + 1) <= destination_image.bytes

C10_Witness ==
    /\ pc = "write"
    /\ argv1 = "1.25"
    /\ inFile = GoodFile(5, 7, "ramp", TRUE)
    /\ destination_image.x = 6
    /\ destination_image.y = 8
    /\ wr = 47
    /\ destination_image.bytes = 248
====
